---- MODULE Spec2Model ----
(***************************************************************************)
(* A model of src/hash-table-v2.c: a hash table with one mutex per bucket, *)
(* a per-thread write cache (tls_cache) of CACHE_SIZE buffered writes, and *)
(* a process-wide registry (master_list) of the caches, protected by       *)
(* master_lock.  Every thread is a small program counter machine whose     *)
(* steps are cut at the lock acquisitions of the code.                     *)
(***************************************************************************)
EXTENDS Integers, Sequences, FiniteSets, TLC

\* #define CACHE_SIZE 4
CACHE_SIZE == 4

\* The bucket count (entries[HASH_TABLE_CAPACITY], line 43), whose #define is
\* in hash-table-base.h; the model bounds it to two buckets.
HASH_TABLE_CAPACITY == 2

\* Bounds of the model.
NumThreads == 2
NumTables == 2
MaxOps == 2
SeqOps == 5
FillOps == 6
MaxFails == 1

Threads == 1..NumThreads
Tables == 1..NumTables
Buckets == 0..(HASH_TABLE_CAPACITY - 1)
Slots == 1..CACHE_SIZE

\* Keys are C strings, modelled as sequences of character codes: "a", "b", "c".
Keys == {<<97>>, <<98>>, <<99>>}
Values == {1, 2}

\* The NULL pointer; key copies are heap addresses 1, 2, ...
NULL == 0

VARIABLES
    tbl,            \* tbl[h]: "none" | "live" | "freed"   (struct hash_table_v2 *)
    buckets,        \* buckets[h][b]: the SLIST of list_entry, head first
    bucket_lock,    \* bucket_lock[h][b]: owner of entries[b].mutex, 0 = unlocked
    bucket_mutex,   \* bucket_mutex[h]: "uninit" | "init" | "destroyed"
    master_lock,    \* owner of master_lock, 0 = unlocked
    master_list,    \* the registered caches (thread ids), head first
    tls_cache,      \* tls_cache[t]: [entries, count, dirty]
    cache_lock,     \* cache_lock[t]: [st, owner] of tls_cache.lock
    registered,     \* tls_cache_registered of each thread
    heap,           \* heap[p]: [str, st] of the key copy at address p
    le_live,        \* list_entry allocations not yet freed
    bad_free,       \* a free() of an address that was not live has happened
    pc,             \* position of each thread
    call,           \* the API call a thread is in: [op, ht, key, value, snap]
    fl,             \* flush_thread_cache frame: [cache, i, pos, ret], with the keys it found
                    \* buffered (snap) and the keys whose list_entry malloc failed (dropped)
    arr,            \* cache_array of flush_all_caches / destroy
    ai,             \* index into cache_array
    res,            \* outcome of the last call that returned: [op, out, stored]
    lastWrite,      \* lastWrite[t][h][k]: value of t's latest add_entry(h, k, .), 0 = none
    firstAge,       \* firstAge[t][h][k]: add_entry calls t completed after its first add of k, -1 = none
    lockFailed,     \* a pthread_mutex_lock has returned an error
    prevAdd,        \* prevAdd[t]: [ht, key, value] of the add_entry that t returned from last
    prevView,       \* prevView[t]: what every thread would read of every key, when that add_entry returned
    opsLeft,        \* API calls each thread may still start
    tablesLeft,     \* hash_table_v2_create calls that may still be made
    failsLeft,      \* allocation failures the environment may still inject
    allocFailed,    \* an allocation has failed
    staleLockOk,    \* the build's outcome of locking a destroyed mutex: TRUE = it locks
    vals,           \* the values the callers pass to add_entry
    keys,           \* the keys the callers pass to add_entry and contains
    destroyLast,    \* destroy is called only after every thread made all its calls
    multi,          \* the callers keep more than one table alive at a time
    trackObs        \* prevAdd and prevView are recorded

vars == <<tbl, buckets, bucket_lock, bucket_mutex, master_lock, master_list,
          tls_cache, cache_lock, registered, heap, le_live, bad_free, pc, call,
          fl, arr, ai, res, lastWrite, firstAge, lockFailed, prevAdd, prevView,
          opsLeft, tablesLeft, failsLeft, allocFailed, staleLockOk, vals, keys,
          destroyLast, multi, trackObs>>

\* Groups of variables an action leaves alone.
tableVars == <<tbl, buckets, bucket_lock, bucket_mutex>>
registryVars == <<master_lock, master_list, registered>>
heapVars == <<heap, le_live, bad_free>>
ghostVars == <<lastWrite, firstAge, lockFailed, prevAdd, prevView>>
envVars == <<tablesLeft, staleLockOk, vals, keys, destroyLast, multi, trackObs>>

----------------------------------------------------------------------------
\* bernstein_hash: h = 5381; h = h * 33 + c for every character.  The keys of
\* the model are one character long, so h stays below 2^31 and the 32-bit
\* wrap of the C function never happens.
RECURSIVE HashFrom(_, _)
HashFrom(h, s) ==
    IF s = <<>> THEN h
    ELSE HashFrom(h * 33 + Head(s), Tail(s))

bernstein_hash(key) == HashFrom(5381, key)

\* uint32_t index = bernstein_hash(key) % HASH_TABLE_CAPACITY;
BucketOf(key) == bernstein_hash(key) % HASH_TABLE_CAPACITY

\* strcmp(le->key, key) == 0 over the heap: position of the first list_entry
\* whose key string equals str, 0 when SLIST_FOREACH ends without a match.
RECURSIVE FindFrom(_, _, _)
FindFrom(list, str, i) ==
    IF i > Len(list) THEN 0
    ELSE IF heap[list[i].key].str = str THEN i
    ELSE FindFrom(list, str, i + 1)

\* A faulty lookup that takes the first entry of a non-empty list for a match.
FindNoCompare(list, str) == IF Len(list) > 0 THEN 1 ELSE 0

Find(list, str) == FindFrom(list, str, 1)

EmptySlot == [key |-> NULL, value |-> 0]
EmptyCache == [entries |-> [i \in Slots |-> EmptySlot], count |-> 0, dirty |-> FALSE]
NoCall == [op |-> "none", ht |-> 0, key |-> <<>>, value |-> 0, snap |-> {}]
NoFlush == [cache |-> 0, i |-> 0, pos |-> 0, ret |-> "none", snap |-> {}, dropped |-> {}]
NoRes == [op |-> "none", out |-> "none", stored |-> FALSE]

\* The thread that creates the table and destroys it: the lowest thread.
MainThread == CHOOSE t \in Threads : \A u \in Threads : t <= u

\* A thread is inside hash_table_v2_destroy.
InDestroy(t) == call[t].op = "destroy"

\* The caller of destroy guarantees that no other thread uses the API.
Quiescent(t) == \A u \in Threads \ {t} : pc[u] = "idle"

\* malloc / strdup / calloc: success, or failure while the environment may inject one.
AllocOutcomes == IF failsLeft > 0 THEN {TRUE, FALSE} ELSE {TRUE}

AllocStep(ok) ==
    /\ failsLeft' = IF ok THEN failsLeft ELSE failsLeft - 1
    /\ allocFailed' = (allocFailed \/ ~ok)

NoAlloc == UNCHANGED <<failsLeft, allocFailed>>

\* strdup: the key copy is placed at the lowest address that is not in use.
FreeAddrs(h) == {p \in 1..Len(h) : h[p].st = "free"}

NewAddr(h) ==
    IF FreeAddrs(h) = {} THEN Len(h) + 1
    ELSE CHOOSE p \in FreeAddrs(h) : \A q \in FreeAddrs(h) : p <= q

Strdup(h, str) ==
    IF NewAddr(h) > Len(h) THEN Append(h, [str |-> str, st |-> "live"])
    ELSE [h EXCEPT ![NewAddr(h)] = [str |-> str, st |-> "live"]]

\* free(p) of a key copy: free(NULL) does nothing; freeing a dead address is recorded.
FreeKey(h, p) ==
    IF p = NULL THEN h
    ELSE [h EXCEPT ![p] = [str |-> <<>>, st |-> "free"]]

BadFree(h, p) == p # NULL /\ h[p].st # "live"

\* Return from an API call: out is what the caller receives ("void" for a
\* function returning void), stored records whether add_entry buffered the write.
Return(t, out, stored) ==
    /\ pc' = [pc EXCEPT ![t] = "idle"]
    /\ res' = [res EXCEPT ![t] = [op |-> call[t].op, out |-> out, stored |-> stored]]
    /\ call' = [call EXCEPT ![t] = NoCall]

\* The value stored for key k in table h, 0 when the key has no entry
\* (the lookup of lines 259-272, with the value of the entry found).
StoredValue(h, k) ==
    LET list == buckets[h][BucketOf(k)]
        pos == Find(list, k)
    IN IF pos = 0 THEN 0 ELSE list[pos].value

\* The value of the last write of key k buffered in a cache, 0 when there is none.
RECURSIVE BufferedValue(_, _, _)
BufferedValue(cache, k, i) ==
    IF i = 0 THEN 0
    ELSE IF cache.entries[i].key # NULL /\ heap[cache.entries[i].key].str = k
        THEN cache.entries[i].value
    ELSE BufferedValue(cache, k, i - 1)

\* What a read of key k of table h by thread u finds: the self-flush of
\* lines 252-254 applies u's buffered writes in order, then the bucket is read.
View(u, h, k) ==
    IF BufferedValue(tls_cache[u], k, tls_cache[u].count) # 0
        THEN BufferedValue(tls_cache[u], k, tls_cache[u].count)
    ELSE StoredValue(h, k)

NoAdd == [ht |-> 0, key |-> <<>>, value |-> 0]
NoView == <<>>

\* The reads of every thread when the add_entry of thread t returns, after
\* it buffered its write (ok) or dropped it.
ViewAfterAdd(t, ok) ==
    [u \in Threads |-> [k \in Keys |->
        IF ok /\ u = t /\ k = call[t].key THEN call[t].value
        ELSE View(u, call[t].ht, k)]]

\* The return of add_entry, recorded for the comparison of successive calls.
RecordAdd(t, ok) ==
    IF trackObs
    THEN /\ prevAdd' = [prevAdd EXCEPT ![t] =
                [ht |-> call[t].ht, key |-> call[t].key, value |-> call[t].value]]
         /\ prevView' = [prevView EXCEPT ![t] = ViewAfterAdd(t, ok)]
    ELSE UNCHANGED <<prevAdd, prevView>>

\* The writes a thread has completed since its first buffered write of a key.
AgeAfterAdd(t, h, k, stored) ==
    [firstAge EXCEPT ![t][h] =
        [j \in Keys |->
            IF firstAge[t][h][j] >= 0
                THEN (IF firstAge[t][h][j] <= CACHE_SIZE
                        THEN firstAge[t][h][j] + 1 ELSE CACHE_SIZE + 1)
            ELSE IF j = k /\ stored THEN 0
            ELSE -1]]

----------------------------------------------------------------------------
\* The static initialisers (lines 47-58): an empty registry, zeroed caches, no table.
InitProgram ==
    /\ tbl = [h \in Tables |-> "none"]
    /\ buckets = [h \in Tables |-> [b \in Buckets |-> <<>>]]
    /\ bucket_lock = [h \in Tables |-> [b \in Buckets |-> 0]]
    /\ bucket_mutex = [h \in Tables |-> "uninit"]
    /\ master_lock = 0
    /\ master_list = <<>>
    /\ tls_cache = [t \in Threads |-> EmptyCache]
    /\ cache_lock = [t \in Threads |-> [st |-> "uninit", owner |-> 0]]
    /\ registered = [t \in Threads |-> FALSE]
    /\ heap = <<>>
    /\ le_live = 0
    /\ bad_free = FALSE
    /\ pc = [t \in Threads |-> "idle"]
    /\ call = [t \in Threads |-> NoCall]
    /\ fl = [t \in Threads |-> NoFlush]
    /\ arr = [t \in Threads |-> <<>>]
    /\ ai = [t \in Threads |-> 0]
    /\ res = [t \in Threads |-> NoRes]
    /\ lastWrite = [t \in Threads |-> [h \in Tables |-> [k \in Keys |-> 0]]]
    /\ firstAge = [t \in Threads |-> [h \in Tables |-> [k \in Keys |-> -1]]]
    /\ allocFailed = FALSE
    /\ lockFailed = FALSE
    /\ prevAdd = [t \in Threads |-> NoAdd]
    /\ prevView = [t \in Threads |-> NoView]

\* Concurrent threads on one table, which is created once and destroyed once;
\* no allocation fails.
Init ==
    /\ InitProgram
    /\ opsLeft = [t \in Threads |-> MaxOps]
    /\ tablesLeft = 1
    /\ failsLeft = 0
    /\ staleLockOk = TRUE
    /\ vals = {1}
    /\ keys = Keys
    /\ destroyLast = FALSE
    /\ multi = FALSE
    /\ trackObs = FALSE

----------------------------------------------------------------------------
\* hash_table_v2_create (lines 189-209): calloc, then every bucket's list and mutex.
Create(h) ==
    /\ tablesLeft > 0
    /\ tbl[h] = "none"
    /\ \A g \in Tables : g < h => tbl[g] # "none"
    /\ multi \/ \A g \in Tables : tbl[g] # "live"
    /\ \A t \in Threads : pc[t] = "idle"
    /\ tablesLeft' = tablesLeft - 1
    /\ \E ok \in AllocOutcomes :
        /\ AllocStep(ok)
        /\ IF ok
           THEN /\ tbl' = [tbl EXCEPT ![h] = "live"]
                /\ buckets' = [buckets EXCEPT ![h] = [b \in Buckets |-> <<>>]]
                /\ bucket_mutex' = [bucket_mutex EXCEPT ![h] = "init"]
           ELSE UNCHANGED <<tbl, buckets, bucket_mutex>>
    /\ UNCHANGED <<bucket_lock, registryVars, tls_cache, cache_lock, heapVars, pc,
                   call, fl, arr, ai, res, ghostVars, opsLeft, staleLockOk, vals, keys,
                   destroyLast, multi, trackObs>>

\* hash_table_v2_add_entry, lines 211-217: the call, and the test of
\* tls_cache_registered that decides whether register_thread_cache runs.
AddCall(t, h, k, v) ==
    /\ pc[t] = "idle"
    /\ tbl[h] = "live"
    /\ opsLeft[t] > 0
    /\ \A u \in Threads : ~InDestroy(u)
    /\ opsLeft' = [opsLeft EXCEPT ![t] = @ - 1]
    /\ call' = [call EXCEPT ![t] = [op |-> "add", ht |-> h, key |-> k, value |-> v,
                                    snap |-> {}]]
    /\ lastWrite' = [lastWrite EXCEPT ![t][h][k] = v]
    /\ pc' = [pc EXCEPT ![t] = IF registered[t] THEN "add_lock" ELSE "reg_lock"]
    /\ UNCHANGED <<tableVars, registryVars, tls_cache, cache_lock, heapVars, fl, arr,
                   ai, res, firstAge, lockFailed, prevAdd, prevView, envVars>>
    /\ NoAlloc

\* register_thread_cache, line 67: pthread_mutex_lock(&master_lock).
RegLock(t) ==
    /\ pc[t] = "reg_lock"
    /\ master_lock = 0
    /\ master_lock' = t
    /\ pc' = [pc EXCEPT ![t] = "reg_body"]
    /\ UNCHANGED <<tableVars, master_list, registered, tls_cache, cache_lock, heapVars,
                   call, fl, arr, ai, res, ghostVars, opsLeft, envVars>>
    /\ NoAlloc

\* register_thread_cache, lines 71-88: reset the cache, init its mutex, insert it
\* at the head of master_list, set tls_cache_registered, unlock master_lock.
RegBody(t) ==
    /\ pc[t] = "reg_body"
    /\ tls_cache' = [tls_cache EXCEPT ![t] = EmptyCache]
    /\ cache_lock' = [cache_lock EXCEPT ![t] = [st |-> "init", owner |-> 0]]
    /\ master_list' = <<t>> \o master_list
    /\ registered' = [registered EXCEPT ![t] = TRUE]
    /\ master_lock' = 0
    /\ pc' = [pc EXCEPT ![t] = "add_lock"]
    /\ UNCHANGED <<tableVars, heapVars, call, fl, arr, ai, res, ghostVars, opsLeft,
                   envVars>>
    /\ NoAlloc

\* pthread_mutex_lock(&cache->lock) can be taken: the mutex is initialised
\* and free, or it was destroyed and the build still locks it.
CanLock(c) ==
    /\ cache_lock[c].owner = 0
    /\ \/ cache_lock[c].st = "init"
       \/ cache_lock[c].st = "destroyed" /\ staleLockOk

\* pthread_mutex_lock(&cache->lock) returns an error: the mutex was destroyed
\* and the build reports it.
LockFails(c) == cache_lock[c].st = "destroyed" /\ ~staleLockOk

\* Lines 234-245 of add_entry, under tls_cache.lock: strdup the key, store the
\* write at entries[count++], set dirty, unlock; on strdup failure unlock only.
AppendWrite(t) ==
    \E ok \in AllocOutcomes :
        /\ AllocStep(ok)
        /\ IF ok
           THEN /\ heap' = Strdup(heap, call[t].key)
                /\ tls_cache' = [tls_cache EXCEPT
                        ![t].entries[tls_cache[t].count + 1] =
                            [key |-> NewAddr(heap), value |-> call[t].value],
                        ![t].count = @ + 1,
                        ![t].dirty = TRUE]
           ELSE UNCHANGED <<heap, tls_cache>>
        /\ cache_lock' = [cache_lock EXCEPT ![t].owner = 0]
        /\ firstAge' = AgeAfterAdd(t, call[t].ht, call[t].key, ok)
        /\ RecordAdd(t, ok)
        /\ Return(t, "void", ok)

\* add_entry, lines 220-223 and, after the flush of a full cache, lines
\* 229-231: lock tls_cache.lock; a failed lock gives up the entry.
AddLock(t) ==
    /\ pc[t] \in {"add_lock", "add_relock"}
    /\ \/ /\ CanLock(t)
          /\ cache_lock' = [cache_lock EXCEPT ![t].owner = t]
          /\ pc' = [pc EXCEPT ![t] = IF pc[t] = "add_lock" THEN "add_body"
                                     ELSE "add_append"]
          /\ UNCHANGED <<call, res, firstAge, lockFailed, prevAdd, prevView>>
       \/ /\ LockFails(t)
          /\ lockFailed' = TRUE
          /\ RecordAdd(t, FALSE)
          /\ firstAge' = AgeAfterAdd(t, call[t].ht, call[t].key, FALSE)
          /\ Return(t, "void", FALSE)
          /\ UNCHANGED cache_lock
    /\ UNCHANGED <<tableVars, registryVars, tls_cache, heapVars, fl, arr, ai,
                   lastWrite, opsLeft, envVars>>
    /\ NoAlloc

\* A faulty add_entry that appends without looking at count.
AddBodyNoFlush(t) ==
    /\ pc[t] \in {"add_body", "add_append"}
    /\ AppendWrite(t)
    /\ UNCHANGED fl
    /\ UNCHANGED <<tableVars, registryVars, le_live, bad_free, arr, ai, lastWrite,
                   lockFailed, opsLeft, envVars>>

\* add_entry, lines 225-245 with the lock held: a full cache is unlocked and
\* flushed (flush_thread_cache takes the lock itself, and add_entry takes it
\* again afterwards); otherwise, and after that flush, the write is appended.
AddBody(t) ==
    /\ pc[t] \in {"add_body", "add_append"}
    /\ IF pc[t] = "add_body" /\ tls_cache[t].count = CACHE_SIZE
       THEN /\ cache_lock' = [cache_lock EXCEPT ![t].owner = 0]
            /\ fl' = [fl EXCEPT ![t] = [NoFlush EXCEPT !.cache = t, !.ret = "add_relock"]]
            /\ pc' = [pc EXCEPT ![t] = "fl_lock"]
            /\ UNCHANGED <<tls_cache, heap, call, res, firstAge, prevAdd, prevView>>
            /\ NoAlloc
       ELSE /\ AppendWrite(t)
            /\ UNCHANGED fl
    /\ UNCHANGED <<tableVars, registryVars, le_live, bad_free, arr, ai, lastWrite,
                   lockFailed, opsLeft, envVars>>

----------------------------------------------------------------------------
\* The key strings buffered in the caches of all threads.
BufferedBy(u) ==
    {heap[tls_cache[u].entries[i].key].str : i \in 1..tls_cache[u].count}

Buffered == UNION {BufferedBy(u) : u \in Threads}

\* The loop header of flush_thread_cache (lines 102-106): the first index from
\* i on that is below count and holds a key, 0 when the loop is over.
RECURSIVE NextSlot(_, _)
NextSlot(cache, i) ==
    IF i > cache.count THEN 0
    ELSE IF cache.entries[i].key # NULL THEN i
    ELSE NextSlot(cache, i + 1)

\* flush_thread_cache, lines 97-100: lock cache->lock; a failed lock is a no-op.
FlushLock(t) ==
    /\ pc[t] = "fl_lock"
    /\ LET c == fl[t].cache
           n == NextSlot(tls_cache[c], 1)
       IN \/ /\ CanLock(c)
             /\ cache_lock' = [cache_lock EXCEPT ![c].owner = t]
             /\ fl' = [fl EXCEPT ![t].i = n, ![t].snap = BufferedBy(c)]
             /\ pc' = [pc EXCEPT ![t] = IF n = 0 THEN "fl_done" ELSE "fl_bucket"]
             /\ UNCHANGED lockFailed
          \/ /\ LockFails(c)
             /\ lockFailed' = TRUE
             /\ UNCHANGED cache_lock
             /\ fl' = [fl EXCEPT ![t] = NoFlush]
             /\ pc' = [pc EXCEPT ![t] = fl[t].ret]
    /\ UNCHANGED <<tableVars, registryVars, tls_cache, heapVars, call, arr, ai, res,
                   lastWrite, firstAge, prevAdd, prevView, opsLeft, envVars>>
    /\ NoAlloc

\* A faulty flush that goes on to the bucket without waiting for its mutex.
FlushBucketNoLock(t) ==
    /\ pc[t] = "fl_bucket"
    /\ pc' = [pc EXCEPT ![t] = "fl_scan"]
    /\ UNCHANGED <<tableVars, registryVars, tls_cache, cache_lock, heapVars, call,
                   fl, arr, ai, res, ghostVars, opsLeft, envVars>>
    /\ NoAlloc

\* flush_thread_cache, lines 103-111: hash the buffered key and lock its bucket.
FlushBucketLock(t) ==
    /\ pc[t] = "fl_bucket"
    /\ LET h == call[t].ht
           e == tls_cache[fl[t].cache].entries[fl[t].i]
           b == BucketOf(heap[e.key].str)
       IN /\ bucket_lock[h][b] = 0
          /\ bucket_lock' = [bucket_lock EXCEPT ![h][b] = t]
    /\ pc' = [pc EXCEPT ![t] = "fl_scan"]
    /\ UNCHANGED <<tbl, buckets, bucket_mutex, registryVars, tls_cache, cache_lock,
                   heapVars, call, fl, arr, ai, res, ghostVars, opsLeft, envVars>>
    /\ NoAlloc

\* flush_thread_cache, lines 112-114: SLIST_FOREACH with strcmp looks the key
\* up in the bucket's list.
FlushScan(t) ==
    /\ pc[t] = "fl_scan"
    /\ LET h == call[t].ht
           e == tls_cache[fl[t].cache].entries[fl[t].i]
           b == BucketOf(heap[e.key].str)
       IN fl' = [fl EXCEPT ![t].pos = Find(buckets[h][b], heap[e.key].str)]
    /\ pc' = [pc EXCEPT ![t] = "fl_apply"]
    /\ UNCHANGED <<tableVars, registryVars, tls_cache, cache_lock, heapVars, call,
                   arr, ai, res, ghostVars, opsLeft, envVars>>
    /\ NoAlloc

\* A faulty update that frees the cache's key copy but keeps the old value.
UpsertUpdateKeep(h, b, pos, c, i, e) ==
    /\ heap' = FreeKey(heap, e.key)
    /\ bad_free' = (bad_free \/ BadFree(heap, e.key))
    /\ tls_cache' = [tls_cache EXCEPT ![c].entries[i].key = NULL]
    /\ UNCHANGED <<buckets, le_live>>
    /\ NoAlloc

\* Lines 115-119: the key is in the bucket: overwrite the value, free the
\* cache's key copy, clear the slot.
UpsertUpdate(h, b, pos, c, i, e) ==
    /\ buckets' = [buckets EXCEPT ![h][b][pos].value = e.value]
    /\ heap' = FreeKey(heap, e.key)
    /\ bad_free' = (bad_free \/ BadFree(heap, e.key))
    /\ tls_cache' = [tls_cache EXCEPT ![c].entries[i].key = NULL]
    /\ UNCHANGED le_live
    /\ NoAlloc

\* A faulty insert that drops the write as if malloc had failed.
UpsertInsertDrop(h, b, c, i, e) ==
    /\ heap' = FreeKey(heap, e.key)
    /\ bad_free' = (bad_free \/ BadFree(heap, e.key))
    /\ tls_cache' = [tls_cache EXCEPT ![c].entries[i].key = NULL]
    /\ UNCHANGED <<buckets, le_live>>
    /\ NoAlloc

\* A faulty insert that, when malloc fails, skips the write without
\* freeing the key copy or clearing the slot.
UpsertInsertKeepKey(h, b, c, i, e) ==
    \E ok \in AllocOutcomes :
        /\ AllocStep(ok)
        /\ IF ok
           THEN /\ buckets' = [buckets EXCEPT ![h][b] = <<e>> \o @]
                /\ le_live' = le_live + 1
                /\ UNCHANGED <<heap, bad_free, tls_cache>>
           ELSE UNCHANGED <<buckets, le_live, heap, bad_free, tls_cache>>

\* Lines 123-133: the key is not in the bucket: malloc a list_entry that takes
\* the key copy and goes to the head of the list; on malloc failure the key
\* copy is freed, the slot cleared and the write skipped.
UpsertInsert(h, b, c, i, e) ==
    \E ok \in AllocOutcomes :
        /\ AllocStep(ok)
        /\ IF ok
           THEN /\ buckets' = [buckets EXCEPT ![h][b] = <<e>> \o @]
                /\ le_live' = le_live + 1
                /\ UNCHANGED <<heap, bad_free, tls_cache>>
           ELSE /\ heap' = FreeKey(heap, e.key)
                /\ bad_free' = (bad_free \/ BadFree(heap, e.key))
                /\ tls_cache' = [tls_cache EXCEPT ![c].entries[i].key = NULL]
                /\ UNCHANGED <<buckets, le_live>>

\* A faulty unlock that leaves the bucket's mutex held.
UnlockBucketNot(h, b) == bucket_lock

\* pthread_mutex_unlock(&ht->entries[index].mutex), lines 128 and 136.
UnlockBucket(h, b) == [bucket_lock EXCEPT ![h][b] = 0]

\* flush_thread_cache, lines 115-137: update the entry found or insert a new
\* one, unlock the bucket, go on to the next buffered write.
FlushApply(t) ==
    /\ pc[t] = "fl_apply"
    /\ LET h == call[t].ht
           c == fl[t].cache
           i == fl[t].i
           e == tls_cache[c].entries[i]
           b == BucketOf(heap[e.key].str)
           n == NextSlot(tls_cache[c], i + 1)
       IN /\ IF fl[t].pos # 0
             THEN UpsertUpdate(h, b, fl[t].pos, c, i, e)
             ELSE UpsertInsert(h, b, c, i, e)
          /\ bucket_lock' = UnlockBucket(h, b)
          /\ fl' = [fl EXCEPT ![t].i = n, ![t].pos = 0,
                               ![t].dropped = IF failsLeft' # failsLeft
                                              THEN @ \cup {heap[e.key].str} ELSE @]
          /\ pc' = [pc EXCEPT ![t] = IF n = 0 THEN "fl_done" ELSE "fl_bucket"]
    /\ UNCHANGED <<tbl, bucket_mutex, registryVars, cache_lock, call, arr, ai, res,
                   ghostVars, opsLeft, envVars>>

\* A faulty end of flush that resets count but leaves dirty set.
FlushDoneKeepDirty(t) ==
    /\ pc[t] = "fl_done"
    /\ LET c == fl[t].cache
       IN /\ tls_cache' = [tls_cache EXCEPT ![c].count = 0]
          /\ cache_lock' = [cache_lock EXCEPT ![c].owner = 0]
    /\ pc' = [pc EXCEPT ![t] = fl[t].ret]
    /\ fl' = [fl EXCEPT ![t] = NoFlush]
    /\ UNCHANGED <<tableVars, registryVars, heapVars, call, arr, ai, res, ghostVars,
                   opsLeft, envVars>>
    /\ NoAlloc

\* flush_thread_cache, lines 139-141: count = 0, dirty = false, unlock the cache.
FlushDone(t) ==
    /\ pc[t] = "fl_done"
    /\ LET c == fl[t].cache
       IN /\ tls_cache' = [tls_cache EXCEPT ![c].count = 0, ![c].dirty = FALSE]
          /\ cache_lock' = [cache_lock EXCEPT ![c].owner = 0]
    /\ pc' = [pc EXCEPT ![t] = fl[t].ret]
    /\ fl' = [fl EXCEPT ![t] = NoFlush]
    /\ UNCHANGED <<tableVars, registryVars, heapVars, call, arr, ai, res, ghostVars,
                   opsLeft, envVars>>
    /\ NoAlloc

----------------------------------------------------------------------------
\* A faulty contains that flushes the cache at the head of master_list.
ContainsCallHead(t, h, k) ==
    /\ pc[t] = "idle"
    /\ tbl[h] = "live"
    /\ opsLeft[t] > 0
    /\ \A u \in Threads : ~InDestroy(u)
    /\ opsLeft' = [opsLeft EXCEPT ![t] = @ - 1]
    /\ call' = [call EXCEPT ![t] = [op |-> "contains", ht |-> h, key |-> k,
                                    value |-> 0, snap |-> {}]]
    /\ IF registered[t] /\ tls_cache[t].dirty
       THEN /\ fl' = [fl EXCEPT ![t] = [NoFlush EXCEPT !.cache = Head(master_list),
                                                       !.ret = "ct_bucket"]]
            /\ pc' = [pc EXCEPT ![t] = "fl_lock"]
       ELSE /\ pc' = [pc EXCEPT ![t] = "ct_bucket"]
            /\ UNCHANGED fl
    /\ UNCHANGED <<tableVars, registryVars, tls_cache, cache_lock, heapVars, arr, ai,
                   res, ghostVars, envVars>>
    /\ NoAlloc

\* hash_table_v2_contains, lines 248-254: the call; a registered thread whose
\* cache is dirty flushes its own cache first.
ContainsCall(t, h, k) ==
    /\ pc[t] = "idle"
    /\ tbl[h] = "live"
    /\ opsLeft[t] > 0
    /\ \A u \in Threads : ~InDestroy(u)
    /\ opsLeft' = [opsLeft EXCEPT ![t] = @ - 1]
    /\ call' = [call EXCEPT ![t] = [op |-> "contains", ht |-> h, key |-> k,
                                    value |-> 0, snap |-> {}]]
    /\ IF registered[t] /\ tls_cache[t].dirty
       THEN /\ fl' = [fl EXCEPT ![t] = [NoFlush EXCEPT !.cache = t, !.ret = "ct_bucket"]]
            /\ pc' = [pc EXCEPT ![t] = "fl_lock"]
       ELSE /\ pc' = [pc EXCEPT ![t] = "ct_bucket"]
            /\ UNCHANGED fl
    /\ UNCHANGED <<tableVars, registryVars, tls_cache, cache_lock, heapVars, arr, ai,
                   res, ghostVars, envVars>>
    /\ NoAlloc

\* A faulty contains that scans the bucket without waiting for its mutex.
ContainsNoLock(t) ==
    /\ pc[t] = "ct_bucket"
    /\ pc' = [pc EXCEPT ![t] = "ct_scan"]
    /\ UNCHANGED <<tableVars, registryVars, tls_cache, cache_lock, heapVars, call,
                   fl, arr, ai, res, ghostVars, opsLeft, envVars>>
    /\ NoAlloc

\* contains, lines 256-257: lock the bucket of the key.
ContainsLock(t) ==
    /\ pc[t] = "ct_bucket"
    /\ LET h == call[t].ht
           b == BucketOf(call[t].key)
       IN /\ bucket_lock[h][b] = 0
          /\ bucket_lock' = [bucket_lock EXCEPT ![h][b] = t]
    /\ pc' = [pc EXCEPT ![t] = "ct_scan"]
    /\ UNCHANGED <<tbl, buckets, bucket_mutex, registryVars, tls_cache, cache_lock,
                   heapVars, call, fl, arr, ai, res, ghostVars, opsLeft, envVars>>
    /\ NoAlloc

\* contains, lines 259-272: found, the outcome of the scan of the key's bucket.
ContainsFound(t) ==
    Find(buckets[call[t].ht][BucketOf(call[t].key)], call[t].key) # 0

\* contains, lines 259-275: scan the list, unlock the bucket, return found.
ContainsScan(t) ==
    /\ pc[t] = "ct_scan"
    /\ LET h == call[t].ht
           b == BucketOf(call[t].key)
       IN /\ bucket_lock' = [bucket_lock EXCEPT ![h][b] = 0]
          /\ Return(t, IF ContainsFound(t) THEN "true" ELSE "false", FALSE)
    /\ UNCHANGED <<tbl, buckets, bucket_mutex, registryVars, tls_cache, cache_lock,
                   heapVars, fl, arr, ai, ghostVars, opsLeft, envVars>>
    /\ NoAlloc

----------------------------------------------------------------------------
\* free() of a sequence of key copies, in order.
RECURSIVE FreeSeq(_, _)
FreeSeq(h, ptrs) ==
    IF ptrs = <<>> THEN h ELSE FreeSeq(FreeKey(h, Head(ptrs)), Tail(ptrs))

RECURSIVE BadFreeSeq(_, _)
BadFreeSeq(h, ptrs) ==
    IF ptrs = <<>> THEN FALSE
    ELSE BadFree(h, Head(ptrs)) \/ BadFreeSeq(FreeKey(h, Head(ptrs)), Tail(ptrs))

\* The key pointers of the list_entry's of a list, head first.
ListKeys(list) == [i \in 1..Len(list) |-> list[i].key]

\* The key pointers of every bucket from b on, in the order destroy frees them.
RECURSIVE TableKeys(_, _)
TableKeys(h, b) ==
    IF b >= HASH_TABLE_CAPACITY THEN <<>>
    ELSE ListKeys(buckets[h][b]) \o TableKeys(h, b + 1)

\* The key pointers in the slots below count of a cache.
CacheKeys(cache) == [i \in 1..cache.count |-> cache.entries[i].key]

\* hash_table_v2_destroy, lines 278-282: the call, made with all other threads quiescent.
DestroyCall(t, h) ==
    /\ t = MainThread
    /\ pc[t] = "idle"
    /\ tbl[h] = "live"
    /\ Quiescent(t)
    /\ destroyLast => \A u \in Threads : opsLeft[u] = 0
    /\ call' = [call EXCEPT ![t] = [op |-> "destroy", ht |-> h, key |-> <<>>,
                                    value |-> 0, snap |-> Buffered]]
    /\ pc' = [pc EXCEPT ![t] = "fa_lock"]
    /\ UNCHANGED <<tableVars, registryVars, tls_cache, cache_lock, heapVars, fl, arr,
                   ai, res, ghostVars, opsLeft, envVars>>
    /\ NoAlloc

\* flush_all_caches, line 153: pthread_mutex_lock(&master_lock).
FlushAllLock(t) ==
    /\ pc[t] = "fa_lock"
    /\ master_lock = 0
    /\ master_lock' = t
    /\ pc' = [pc EXCEPT ![t] = "fa_copy"]
    /\ UNCHANGED <<tableVars, master_list, registered, tls_cache, cache_lock, heapVars,
                   call, fl, arr, ai, res, ghostVars, opsLeft, envVars>>
    /\ NoAlloc

\* A faulty snapshot that keeps master_lock while the caches are flushed.
FlushAllCopyHold(t) ==
    /\ pc[t] = "fa_copy"
    /\ arr' = [arr EXCEPT ![t] = master_list]
    /\ ai' = [ai EXCEPT ![t] = 1]
    /\ pc' = [pc EXCEPT ![t] = "fa_next"]
    /\ UNCHANGED <<tableVars, registryVars, tls_cache, cache_lock, heapVars, call,
                   fl, res, ghostVars, opsLeft, envVars>>
    /\ NoAlloc

\* flush_all_caches, lines 157-178: count the registry, malloc cache_array, copy
\* the cache pointers, unlock; when malloc fails unlock and return without a flush.
FlushAllCopy(t) ==
    /\ pc[t] = "fa_copy"
    /\ master_lock' = 0
    /\ IF Len(master_list) > 0
       THEN \E ok \in AllocOutcomes :
                /\ AllocStep(ok)
                /\ IF ok
                   THEN /\ arr' = [arr EXCEPT ![t] = master_list]
                        /\ ai' = [ai EXCEPT ![t] = 1]
                        /\ pc' = [pc EXCEPT ![t] = "fa_next"]
                   ELSE /\ pc' = [pc EXCEPT ![t] = "ds_lock"]
                        /\ UNCHANGED <<arr, ai>>
       ELSE /\ arr' = [arr EXCEPT ![t] = <<>>]
            /\ ai' = [ai EXCEPT ![t] = 1]
            /\ pc' = [pc EXCEPT ![t] = "fa_next"]
            /\ NoAlloc
    /\ UNCHANGED <<tableVars, master_list, registered, tls_cache, cache_lock, heapVars,
                   call, fl, res, ghostVars, opsLeft, envVars>>

\* flush_all_caches, lines 181-185: flush the next copied cache, or free
\* cache_array and return to destroy.
FlushAllNext(t) ==
    /\ pc[t] = "fa_next"
    /\ IF ai[t] <= Len(arr[t])
       THEN /\ fl' = [fl EXCEPT ![t] = [NoFlush EXCEPT !.cache = arr[t][ai[t]],
                                                       !.ret = "fa_next"]]
            /\ ai' = [ai EXCEPT ![t] = @ + 1]
            /\ pc' = [pc EXCEPT ![t] = "fl_lock"]
            /\ UNCHANGED arr
       ELSE /\ arr' = [arr EXCEPT ![t] = <<>>]
            /\ ai' = [ai EXCEPT ![t] = 0]
            /\ pc' = [pc EXCEPT ![t] = "ds_lock"]
            /\ UNCHANGED fl
    /\ UNCHANGED <<tableVars, registryVars, tls_cache, cache_lock, heapVars, call, res,
                   ghostVars, opsLeft, envVars>>
    /\ NoAlloc

\* destroy, line 286: pthread_mutex_lock(&master_lock).
DestroyLock(t) ==
    /\ pc[t] = "ds_lock"
    /\ master_lock = 0
    /\ master_lock' = t
    /\ pc' = [pc EXCEPT ![t] = "ds_copy"]
    /\ UNCHANGED <<tableVars, master_list, registered, tls_cache, cache_lock, heapVars,
                   call, fl, arr, ai, res, ghostVars, opsLeft, envVars>>
    /\ NoAlloc

\* destroy, lines 289-310 and 336-339: copy the registry into cache_array and
\* clear master_list; without caches, or when malloc fails, skip the cache cleanup.
DestroyCopy(t) ==
    /\ pc[t] = "ds_copy"
    /\ master_lock' = 0
    /\ IF Len(master_list) > 0
       THEN \E ok \in AllocOutcomes :
                /\ AllocStep(ok)
                /\ IF ok
                   THEN /\ arr' = [arr EXCEPT ![t] = master_list]
                        /\ ai' = [ai EXCEPT ![t] = 1]
                        /\ master_list' = <<>>
                        /\ pc' = [pc EXCEPT ![t] = "ds_clean"]
                   ELSE /\ pc' = [pc EXCEPT ![t] = "ds_buckets"]
                        /\ UNCHANGED <<arr, ai, master_list>>
       ELSE /\ pc' = [pc EXCEPT ![t] = "ds_buckets"]
            /\ UNCHANGED <<arr, ai, master_list>>
            /\ NoAlloc
    /\ UNCHANGED <<tableVars, registered, tls_cache, cache_lock, heapVars, call, fl,
                   res, ghostVars, opsLeft, envVars>>

\* destroy, lines 316-321: lock the next cache of cache_array; when the lock
\* fails only its mutex is destroyed (line 331).
DestroyCleanLock(t) ==
    /\ pc[t] = "ds_clean"
    /\ LET c == arr[t][ai[t]]
           last == ai[t] = Len(arr[t])
       IN \/ /\ CanLock(c)
             /\ cache_lock' = [cache_lock EXCEPT ![c].owner = t]
             /\ pc' = [pc EXCEPT ![t] = "ds_cfree"]
             /\ UNCHANGED <<arr, ai, lockFailed>>
          \/ /\ LockFails(c)
             /\ lockFailed' = TRUE
             /\ cache_lock' = [cache_lock EXCEPT ![c].st = "destroyed"]
             /\ arr' = [arr EXCEPT ![t] = IF last THEN <<>> ELSE @]
             /\ ai' = [ai EXCEPT ![t] = IF last THEN 0 ELSE @ + 1]
             /\ pc' = [pc EXCEPT ![t] = IF last THEN "ds_buckets" ELSE "ds_clean"]
    /\ UNCHANGED <<tableVars, registryVars, tls_cache, heapVars, call, fl, res,
                   lastWrite, firstAge, prevAdd, prevView, opsLeft, envVars>>
    /\ NoAlloc

\* destroy, lines 322-334: free the keys below count, reset the cache, unlock
\* it and destroy its mutex; after the last cache free cache_array.
DestroyCleanFree(t) ==
    /\ pc[t] = "ds_cfree"
    /\ LET c == arr[t][ai[t]]
           last == ai[t] = Len(arr[t])
           cache == tls_cache[c]
       IN /\ heap' = FreeSeq(heap, CacheKeys(cache))
          /\ bad_free' = (bad_free \/ BadFreeSeq(heap, CacheKeys(cache)))
          /\ tls_cache' = [tls_cache EXCEPT ![c] =
                [entries |-> [i \in Slots |->
                                 IF i <= cache.count
                                 THEN [cache.entries[i] EXCEPT !.key = NULL]
                                 ELSE cache.entries[i]],
                 count |-> 0, dirty |-> FALSE]]
          /\ cache_lock' = [cache_lock EXCEPT ![c] = [st |-> "destroyed", owner |-> 0]]
          /\ arr' = [arr EXCEPT ![t] = IF last THEN <<>> ELSE @]
          /\ ai' = [ai EXCEPT ![t] = IF last THEN 0 ELSE @ + 1]
          /\ pc' = [pc EXCEPT ![t] = IF last THEN "ds_buckets" ELSE "ds_clean"]
    /\ UNCHANGED <<tableVars, registryVars, le_live, call, fl, res, ghostVars, opsLeft,
                   envVars>>
    /\ NoAlloc

\* destroy, lines 342-355: free every list_entry and its key, destroy every
\* bucket mutex, free the table.
DestroyBuckets(t) ==
    /\ pc[t] = "ds_buckets"
    /\ LET h == call[t].ht
           ptrs == TableKeys(h, 0)
       IN /\ heap' = FreeSeq(heap, ptrs)
          /\ bad_free' = (bad_free \/ BadFreeSeq(heap, ptrs))
          /\ le_live' = le_live - Len(ptrs)
          /\ buckets' = [buckets EXCEPT ![h] = [b \in Buckets |-> <<>>]]
          /\ bucket_mutex' = [bucket_mutex EXCEPT ![h] = "destroyed"]
          /\ tbl' = [tbl EXCEPT ![h] = "freed"]
    /\ Return(t, "void", FALSE)
    /\ UNCHANGED <<bucket_lock, registryVars, tls_cache, cache_lock, fl, arr, ai,
                   ghostVars, opsLeft, envVars>>
    /\ NoAlloc

----------------------------------------------------------------------------
Next ==
    \/ \E h \in Tables : Create(h)
    \/ \E t \in Threads, h \in Tables, k \in keys, v \in vals : AddCall(t, h, k, v)
    \/ \E t \in Threads : RegLock(t)
    \/ \E t \in Threads : RegBody(t)
    \/ \E t \in Threads : AddLock(t)
    \/ \E t \in Threads : AddBody(t)
    \/ \E t \in Threads : FlushLock(t)
    \/ \E t \in Threads : FlushBucketLock(t)
    \/ \E t \in Threads : FlushScan(t)
    \/ \E t \in Threads : FlushApply(t)
    \/ \E t \in Threads : FlushDone(t)
    \/ \E t \in Threads, h \in Tables, k \in keys : ContainsCall(t, h, k)
    \/ \E t \in Threads : ContainsLock(t)
    \/ \E t \in Threads : ContainsScan(t)
    \/ \E t \in Threads, h \in Tables : DestroyCall(t, h)
    \/ \E t \in Threads : FlushAllLock(t)
    \/ \E t \in Threads : FlushAllCopy(t)
    \/ \E t \in Threads : FlushAllNext(t)
    \/ \E t \in Threads : DestroyLock(t)
    \/ \E t \in Threads : DestroyCopy(t)
    \/ \E t \in Threads : DestroyCleanLock(t)
    \/ \E t \in Threads : DestroyCleanFree(t)
    \/ \E t \in Threads : DestroyBuckets(t)

Spec == Init /\ [][Next]_vars

\* The keys of bucket 0, which collide.
Colliding == {k \in Keys : BucketOf(k) = 0}

\* A single thread that makes a long sequence of calls on one table, and
\* destroys it at the end.
InitSeq ==
    /\ InitProgram
    /\ opsLeft = [t \in Threads |-> IF t = MainThread THEN SeqOps ELSE 0]
    /\ tablesLeft = 1
    /\ failsLeft = 0
    /\ staleLockOk = TRUE
    /\ vals = Values
    /\ keys = Colliding
    /\ destroyLast = TRUE
    /\ multi = FALSE
    /\ trackObs = FALSE

SpecSeq == InitSeq /\ [][Next]_vars

\* A writer (thread 1) that makes a long sequence of calls and a second
\* thread that makes one call, on one table.
InitFill ==
    /\ InitProgram
    /\ opsLeft = [t \in Threads |-> IF t = 1 THEN FillOps ELSE IF t = 2 THEN 1 ELSE 0]
    /\ tablesLeft = 1
    /\ failsLeft = 0
    /\ staleLockOk = TRUE
    /\ vals = {1}
    /\ keys = Colliding
    /\ destroyLast = TRUE
    /\ multi = FALSE
    /\ trackObs = FALSE

SpecFill == InitFill /\ [][Next]_vars

\* Two tables alive at the same time: the second hash_table_v2_create does
\* not wait for the destroy of the first table.
InitTwo ==
    /\ InitProgram
    /\ opsLeft = [t \in Threads |-> IF t = MainThread THEN MaxOps ELSE 1]
    /\ tablesLeft = 2
    /\ failsLeft = 0
    /\ staleLockOk = TRUE
    /\ vals = {1}
    /\ keys = Colliding
    /\ destroyLast = FALSE
    /\ multi = TRUE
    /\ trackObs = FALSE

SpecTwo == InitTwo /\ [][Next]_vars

\* Concurrent threads on one table, with allocations that may fail.
InitFail ==
    /\ InitProgram
    /\ opsLeft = [t \in Threads |-> IF t = MainThread THEN MaxOps ELSE 1]
    /\ tablesLeft = 1
    /\ failsLeft = MaxFails
    /\ staleLockOk = TRUE
    /\ vals = {1}
    /\ keys = Keys
    /\ destroyLast = FALSE
    /\ multi = FALSE
    /\ trackObs = FALSE

SpecFail == InitFail /\ [][Next]_vars

\* Two tables, the second created after the first was destroyed, under both
\* outcomes of locking a destroyed mutex.
InitLife ==
    /\ InitProgram
    /\ opsLeft = [t \in Threads |-> IF t = MainThread THEN MaxOps ELSE 1]
    /\ tablesLeft = 2
    /\ failsLeft = 0
    /\ staleLockOk \in BOOLEAN
    /\ vals = {1}
    /\ keys = Colliding
    /\ destroyLast = FALSE
    /\ multi = FALSE
    /\ trackObs = FALSE

SpecLife == InitLife /\ [][Next]_vars

----------------------------------------------------------------------------
\* The properties of the table.

\* Thread t is the only thread that ever wrote to table h.
OnlyWriter(t, h) ==
    \A u \in Threads \ {t} : \A k \in Keys : lastWrite[u][h][k] = 0

NeverWritten(h, k) == \A u \in Threads : lastWrite[u][h][k] = 0

\* C2: no phantom keys.  A contains(h, k) for a key that no thread ever gave
\* to add_entry on h finds nothing, with any number of threads and whatever
\* colliding keys the bucket holds.
C2_NoPhantomKeys ==
    \A t \in Threads :
        (pc[t] = "ct_scan" /\ NeverWritten(call[t].ht, call[t].key))
        => ~ContainsFound(t)

\* A contains for a never-written key scans a bucket that holds another key.
C2_Witness ==
    \E t \in Threads :
        /\ pc[t] = "ct_scan"
        /\ NeverWritten(call[t].ht, call[t].key)
        /\ buckets[call[t].ht][BucketOf(call[t].key)] # <<>>

\* C3: in every reachable state no bucket's list holds two entries with equal
\* key strings, concurrent flushes of the same key into the same bucket included.
C3_NoDuplicateKeys ==
    \A h \in Tables, b \in Buckets :
        \A i, j \in 1..Len(buckets[h][b]) :
            i # j => heap[buckets[h][b][i].key].str # heap[buckets[h][b][j].key].str

\* Two threads flush the same new key into the same bucket: one holds the
\* bucket and is about to insert the key, the other waits for the bucket
\* with an equal key.
C3_Witness ==
    \E t \in Threads, u \in Threads :
        /\ t # u
        /\ pc[t] = "fl_apply" /\ fl[t].pos = 0
        /\ pc[u] = "fl_bucket"
        /\ call[t].ht = call[u].ht
        /\ heap[tls_cache[fl[t].cache].entries[fl[t].i].key].str
             = heap[tls_cache[fl[u].cache].entries[fl[u].i].key].str

\* The key strings that table h stores.
StoreKeys(h) ==
    {heap[buckets[h][b][i].key].str : <<b, i>> \in
        {<<b, i>> \in Buckets \X (1..CACHE_SIZE * NumThreads) : i <= Len(buckets[h][b])}}

\* C4: destroy makes every buffered write visible.  When destroy, called with
\* the other threads quiescent, starts to free the bucket entries, the key of
\* every write that was buffered in a thread's cache at the call is in the store.
C4_DestroyAppliesBuffered ==
    \A t \in Threads :
        pc[t] = "ds_buckets" => call[t].snap \subseteq StoreKeys(call[t].ht)

EntryKeys ==
    {buckets[h][b][i].key : <<h, b, i>> \in
        {<<h, b, i>> \in Tables \X Buckets \X (1..CACHE_SIZE * NumThreads) :
            i <= Len(buckets[h][b])}}

\* C6: ownership of a key copy moves in the flush.  No slot of a thread's
\* cache refers to a key copy that an Entry of a bucket owns.
C6_NoSlotRefersToEntryKey ==
    \A c \in Threads, i \in Slots :
        tls_cache[c].entries[i].key # NULL
        => tls_cache[c].entries[i].key \notin EntryKeys

\* C7: no leak and no double free at teardown.  When destroy has returned
\* and no table is live, every key copy and every list_entry has been
\* released, nothing has been released twice, and every bucket mutex and
\* every cache mutex that was initialised has been destroyed; this includes
\* the destroy of a table that was created after an earlier table was destroyed.
C7_TeardownReleasesAll ==
    (/\ \A t \in Threads : pc[t] = "idle"
     /\ res[MainThread].op = "destroy"
     /\ \A h \in Tables : tbl[h] # "live")
    => /\ \A p \in 1..Len(heap) : heap[p].st = "free"
       /\ le_live = 0
       /\ ~bad_free
       /\ \A c \in Threads : cache_lock[c].st # "init"
       /\ \A h \in Tables : tbl[h] = "freed" => bucket_mutex[h] = "destroyed"

\* The locks that thread t holds.
HeldLocks(t) ==
    {[kind |-> "registry", a |-> 0, b |-> 0] : x \in {1} \cap {IF master_lock = t THEN 1 ELSE 0}}
    \cup {[kind |-> "cache", a |-> c, b |-> 0] : c \in {c \in Threads : cache_lock[c].owner = t}}
    \cup {[kind |-> "bucket", a |-> hb[1], b |-> hb[2]] :
            hb \in {hb \in Tables \X Buckets : bucket_lock[hb[1]][hb[2]] = t}}

\* The lock that thread t is about to acquire, of kind "none" when its next
\* step is not a pthread_mutex_lock.
Wanted(t) ==
    IF pc[t] \in {"reg_lock", "fa_lock", "ds_lock"}
        THEN [kind |-> "registry", a |-> 0, b |-> 0]
    ELSE IF pc[t] \in {"add_lock", "add_relock"}
        THEN [kind |-> "cache", a |-> t, b |-> 0]
    ELSE IF pc[t] = "fl_lock"
        THEN [kind |-> "cache", a |-> fl[t].cache, b |-> 0]
    ELSE IF pc[t] = "ds_clean"
        THEN [kind |-> "cache", a |-> arr[t][ai[t]], b |-> 0]
    ELSE IF pc[t] = "fl_bucket"
        THEN [kind |-> "bucket", a |-> call[t].ht,
              b |-> BucketOf(heap[tls_cache[fl[t].cache].entries[fl[t].i].key].str)]
    ELSE IF pc[t] = "ct_bucket"
        THEN [kind |-> "bucket", a |-> call[t].ht, b |-> BucketOf(call[t].key)]
    ELSE [kind |-> "none", a |-> 0, b |-> 0]

\* C8: the lock nesting discipline.  A thread that is about to acquire a lock
\* while it holds one holds exactly one lock, a cache lock, and is about to
\* acquire a bucket lock; and no thread holds two bucket locks.
C8_LockNesting ==
    \A t \in Threads :
        /\ (Wanted(t).kind # "none" /\ HeldLocks(t) # {})
           => /\ Cardinality(HeldLocks(t)) = 1
              /\ \A l \in HeldLocks(t) : l.kind = "cache"
              /\ Wanted(t).kind = "bucket"
        /\ Cardinality({l \in HeldLocks(t) : l.kind = "bucket"}) <= 1

\* The thread in destroy flushes the cache of another thread: it holds that
\* cache's lock, and nothing else, and is about to lock a bucket.
C8_Witness ==
    \E t \in Threads :
        /\ pc[t] = "fl_bucket"
        /\ fl[t].cache # t
        /\ HeldLocks(t) = {[kind |-> "cache", a |-> fl[t].cache, b |-> 0]}

\* The thread that holds lock l, 0 when the lock is free.
Holder(l) ==
    IF l.kind = "registry" THEN master_lock
    ELSE IF l.kind = "cache" THEN cache_lock[l.a].owner
    ELSE IF l.kind = "bucket" THEN bucket_lock[l.a][l.b]
    ELSE 0

\* No set of threads is such that each of them waits for a lock that a
\* thread of the set holds.
NoBlockedSet ==
    \A S \in (SUBSET Threads) \ {{}} :
        ~ \A t \in S : Wanted(t).kind # "none" /\ Holder(Wanted(t)) \in S

\* The steps of thread t inside an operation it has started.
Step(t) ==
    \/ RegLock(t) \/ RegBody(t) \/ AddLock(t) \/ AddBody(t)
    \/ FlushLock(t) \/ FlushBucketLock(t) \/ FlushScan(t) \/ FlushApply(t)
    \/ FlushDone(t) \/ ContainsLock(t) \/ ContainsScan(t)
    \/ FlushAllLock(t) \/ FlushAllCopy(t) \/ FlushAllNext(t)
    \/ DestroyLock(t) \/ DestroyCopy(t) \/ DestroyCleanLock(t)
    \/ DestroyCleanFree(t) \/ DestroyBuckets(t)

\* Fair scheduling: a thread that can take a step of its operation takes it.
SpecFair == Init /\ [][Next]_vars /\ \A t \in Threads : WF_vars(Step(t))

\* C9: deadlock freedom and completion.  Under fair scheduling every
\* operation that a thread started returns, and in no reachable state does
\* each thread of some set wait for a lock held by a thread of the set.
C9_DeadlockFree ==
    /\ []NoBlockedSet
    /\ \A t \in Threads : (pc[t] # "idle") ~> (pc[t] = "idle")

\* A thread that holds its cache lock waits in its flush for a bucket lock
\* that another thread holds.
C9_Witness ==
    \E t \in Threads, u \in Threads :
        /\ t # u
        /\ pc[t] = "fl_bucket"
        /\ cache_lock[fl[t].cache].owner = t
        /\ Holder(Wanted(t)) = u

\* C10: a key-copy allocation failure in add_entry is reported.  An add_entry
\* that dropped its write because strdup failed returns to its caller an
\* outcome that differs from the outcome of an add_entry that buffered its write.
C10_KeyCopyFailureReported ==
    \A t \in Threads, u \in Threads :
        (/\ res[t].op = "add" /\ ~res[t].stored
         /\ res[u].op = "add" /\ res[u].stored)
        => res[t].out # res[u].out

\* The process has been terminated: abort() (lines 68 and 77) is the only
\* fatal exit of the code, taken when master_lock or pthread_mutex_init fails.
Aborted == \E t \in Threads : pc[t] = "aborted"

\* C11: a lock failure is fatal.  Once a lock acquisition of register,
\* add_entry, the flush, flush-all, contains or destroy has reported a
\* failure, the process is in its fatal-termination state: no operation
\* returns normally or goes on after the failed lock.
C11_LockFailureFatal == lockFailed => Aborted

\* The caches that thread t reads, locks or modifies at its position.
CachesTouched(t) ==
    IF pc[t] \in {"reg_body", "add_lock", "add_relock", "add_body", "add_append"}
        THEN {t}
    ELSE IF pc[t] \in {"fl_lock", "fl_bucket", "fl_scan", "fl_apply", "fl_done"}
        THEN {fl[t].cache}
    ELSE IF pc[t] \in {"ds_clean", "ds_cfree"}
        THEN {arr[t][ai[t]]}
    ELSE {}

\* C12: thread-cache isolation.  A thread inside add_entry or contains reads,
\* locks and modifies no cache but its own: it touches only its own cache,
\* holds no other thread's cache lock and waits for none.
C12_CacheIsolation ==
    \A t \in Threads :
        call[t].op \in {"add", "contains"}
        => /\ CachesTouched(t) \subseteq {t}
           /\ \A u \in Threads \ {t} : cache_lock[u].owner # t
           /\ Wanted(t).kind = "cache" => Wanted(t).a = t

\* A thread inside contains flushes its own cache while another thread's
\* cache holds buffered writes.
C12_Witness ==
    \E t \in Threads, u \in Threads :
        /\ t # u
        /\ call[t].op = "contains"
        /\ pc[t] = "fl_apply" /\ fl[t].cache = t
        /\ tls_cache[u].count > 0 /\ cache_lock[u].owner = 0

\* A single thread that makes a long sequence of calls on one table, with the
\* reads recorded at the return of every add_entry.
InitIdem ==
    /\ InitProgram
    /\ opsLeft = [t \in Threads |-> IF t = MainThread THEN SeqOps ELSE 0]
    /\ tablesLeft = 1
    /\ failsLeft = 0
    /\ staleLockOk = TRUE
    /\ vals = Values
    /\ keys = Colliding
    /\ destroyLast = TRUE
    /\ multi = FALSE
    /\ trackObs = TRUE

SpecIdem == InitIdem /\ [][Next]_vars

\* Thread t is about to return from an add_entry(k, v) that directly follows
\* its add_entry(k, v) on the same table: it holds its cache lock and appends.
SecondAdd(t) ==
    /\ \/ pc[t] = "add_append"
       \/ pc[t] = "add_body" /\ tls_cache[t].count < CACHE_SIZE
    /\ res[t].op = "add"
    /\ prevAdd[t] = [ht |-> call[t].ht, key |-> call[t].key, value |-> call[t].value]

CacheLockOf(c) == [kind |-> "cache", a |-> c, b |-> 0]
BucketLockOf(h, b) == [kind |-> "bucket", a |-> h, b |-> b]

\* The data that thread t reads or writes at its position, named by the
\* locks that protect them: a cache's buffer, count and dirty flag, and a
\* bucket's list.
DataTouched(t) ==
    IF pc[t] \in {"reg_body", "add_body", "add_append"}
        THEN {CacheLockOf(t)}
    ELSE IF pc[t] \in {"fl_bucket", "fl_done"}
        THEN {CacheLockOf(fl[t].cache)}
    ELSE IF pc[t] \in {"fl_scan", "fl_apply"}
        THEN {CacheLockOf(fl[t].cache),
              BucketLockOf(call[t].ht,
                  BucketOf(heap[tls_cache[fl[t].cache].entries[fl[t].i].key].str))}
    ELSE IF pc[t] = "ct_scan"
        THEN {BucketLockOf(call[t].ht, BucketOf(call[t].key))}
    ELSE IF pc[t] = "ds_cfree"
        THEN {CacheLockOf(arr[t][ai[t]])}
    ELSE IF pc[t] = "ds_buckets"
        THEN {BucketLockOf(call[t].ht, b) : b \in Buckets}
    ELSE {}

\* C14 as stated: in every operation, register and destroy included, a
\* thread that touches a bucket's list or a cache's buffer, count or dirty
\* flag holds the lock of that bucket or cache.
C14_AlwaysUnderOwnLock ==
    \A t \in Threads : \A d \in DataTouched(t) : Holder(d) = t

\* Thread t resets its own cache in register_thread_cache before the cache
\* is in master_list: no other thread can reach it.
Unpublished(t, d) ==
    /\ pc[t] = "reg_body"
    /\ d = CacheLockOf(t)
    /\ \A i \in 1..Len(master_list) : master_list[i] # t

\* C14, amended: add_entry, the flush, contains and the cache cleanup of
\* destroy touch a bucket's list or a cache only under its lock; register
\* resets the caller's cache without the cache lock, before the cache is
\* registered, and destroy drains the buckets without the bucket locks while
\* every other thread is quiescent; no two threads touch the same bucket list
\* or the same cache at the same time.
C14_UnderLockOrExclusive ==
    /\ \A t \in Threads : \A d \in DataTouched(t) :
          \/ Holder(d) = t
          \/ Unpublished(t, d)
          \/ pc[t] = "ds_buckets" /\ Quiescent(t)
    /\ \A t \in Threads, u \in Threads :
          t # u => DataTouched(t) \cap DataTouched(u) = {}

\* One thread scans a bucket in contains while another thread, which holds
\* its cache lock, waits in its flush for the same bucket.
C14_Witness ==
    \E t \in Threads, u \in Threads :
        /\ t # u
        /\ pc[t] = "ct_scan"
        /\ pc[u] = "fl_bucket"
        /\ Wanted(u) = BucketLockOf(call[t].ht, BucketOf(call[t].key))

\* C15: a flush degrades gracefully.  When the loop of a flush is over, the
\* key of every write the flush found buffered is in the store unless the
\* malloc of its list_entry failed; the key copy of every slot was released
\* or is owned by an Entry; no bucket lock is still held; when the flush has
\* returned the cache is empty and clean; and the process runs on.
C15_FlushDegradesGracefully ==
    /\ ~Aborted
    /\ \A t \in Threads :
        /\ pc[t] = "fl_done"
           => /\ (fl[t].snap \ fl[t].dropped) \subseteq StoreKeys(call[t].ht)
              /\ \A i \in 1..tls_cache[fl[t].cache].count :
                    \/ tls_cache[fl[t].cache].entries[i].key = NULL
                    \/ tls_cache[fl[t].cache].entries[i].key \in EntryKeys
              /\ \A l \in HeldLocks(t) : l.kind # "bucket"
              /\ ~bad_free
        /\ pc[t] \in {"ct_bucket", "add_relock"}
           => tls_cache[t].count = 0 /\ ~tls_cache[t].dirty
        /\ pc[t] = "fa_next"
           => \A j \in 1..(ai[t] - 1) :
                 tls_cache[arr[t][j]].count = 0 /\ ~tls_cache[arr[t][j]].dirty

\* A flush of two buffered writes is over: the malloc for the first write
\* failed and its key copy was released, the second write was inserted.
C15_Witness ==
    \E t \in Threads :
        /\ pc[t] = "fl_done"
        /\ fl[t].dropped # {}
        /\ tls_cache[fl[t].cache].count = 2
        /\ tls_cache[fl[t].cache].entries[1].key = NULL
        /\ tls_cache[fl[t].cache].entries[2].key \in EntryKeys
        /\ (fl[t].snap \ fl[t].dropped) # {}
        /\ \A k \in fl[t].dropped : k \notin StoreKeys(call[t].ht)

\* How many times the cache c occurs in master_list.
Occurrences(c) == Cardinality({i \in 1..Len(master_list) : master_list[i] = c})

\* C16: registry invariant.  Whatever create, add_entry, contains and destroy
\* calls came before, a cache that holds buffered writes is an element of
\* master_list exactly once.
C16_BufferedCacheRegisteredOnce ==
    \A c \in Threads : tls_cache[c].count > 0 => Occurrences(c) = 1

\* C20: no use of a destroyed cache lock.  No thread is about to acquire a
\* cache mutex that hash_table_v2_destroy has destroyed.
C20_NoDestroyedCacheLockUsed ==
    \A t \in Threads :
        Wanted(t).kind = "cache" => cache_lock[Wanted(t).a].st # "destroyed"

\* C17: capacity bound.  No cache ever holds more than CACHE_SIZE writes, and
\* add_entry stores a write only at an index below CACHE_SIZE: when it is
\* about to append, after the flush of a full cache or without one, the
\* cache is not full.
C17_CapacityBound ==
    /\ \A c \in Threads : tls_cache[c].count <= CACHE_SIZE
    /\ \A t \in Threads :
          pc[t] = "add_append" => tls_cache[t].count < CACHE_SIZE

\* An add_entry that found its cache full has flushed it and is about to
\* append to the emptied cache.
C17_Witness ==
    \E t \in Threads : pc[t] = "add_append" /\ tls_cache[t].count = 0

\* C18: dirty-flag invariant.  Whenever a cache's lock is not held, its dirty
\* flag is set exactly when its count is above zero; so the unlocked test of
\* dirty in contains starts a flush exactly when the caller has buffered
\* writes: a contains that goes to flush has some, a contains that goes on to
\* the bucket has none.
C18_DirtyIffBuffered ==
    /\ \A c \in Threads :
          cache_lock[c].owner = 0
          => (tls_cache[c].dirty <=> tls_cache[c].count > 0)
    /\ \A t \in Threads :
          call[t].op = "contains"
          => /\ pc[t] = "fl_lock" => tls_cache[t].count > 0
             /\ pc[t] = "ct_bucket" => tls_cache[t].count = 0

\* A contains has found its cache dirty and is about to flush the writes
\* buffered in it.
C18_Witness ==
    \E t \in Threads :
        /\ call[t].op = "contains"
        /\ pc[t] = "fl_lock"
        /\ cache_lock[t].owner = 0
        /\ tls_cache[t].dirty
        /\ tls_cache[t].count > 0

\* C19: table isolation.  With two tables alive, a write is applied only to
\* the table its add_entry named: the Bucket Store of a table holds no key
\* that no add_entry ever wrote to that table.
C19_TableIsolation ==
    \A h \in Tables : \A k \in Keys :
        (tbl[h] = "live" /\ k \in StoreKeys(h)) => ~NeverWritten(h, k)

====
